---- MODULE Spec2Model ----
(***************************************************************************)
(* Model of src/utilities/python/utilities.py (BASIS utilities):           *)
(* targetuid / istarget / exepath, tostring / qsplit and execute.          *)
(*                                                                         *)
(* A Python string is a sequence of one-character strings, so that         *)
(* startswith, split, join, replace and the shlex scanner are computed     *)
(* character by character.  None is the one-element sequence <<"None">>,   *)
(* which no character string equals.                                       *)
(***************************************************************************)
EXTENDS Integers, Sequences, FiniteSets, TLC

VARIABLES
    pc,        \* position of the modelled call
    name,      \* argument name of targetuid / exepath
    prefix,    \* argument prefix
    targets,   \* argument targets: dictionary UID -> path (a function)
    uidrun,    \* result of targetuid: [uid, tried]
    files,     \* the regular files of the file system (os.path.isfile)
    onpath,    \* the command names which.which finds in PATH
    path,      \* result of exepath
    qargs,     \* argument list given to tostring
    qstr,      \* result of tostring
    qback,     \* result of qsplit
    inv,       \* execute: the invocation given as args
    opt,       \* execute: quiet, stdout, allow_fail, verbose, simulate
    par,       \* execute: the locals of the call and what it wrote and returned
    proc       \* execute: the child process and its two pipes

vars == <<pc, name, prefix, targets, uidrun, files, onpath, path, qargs, qstr, qback,
          inv, opt, par, proc>>

\* the variables of execute
xvars == <<inv, opt, par, proc>>

\* the variables of the quoting functions
qvars == <<qargs, qstr, qback>>

\* the variables of the name resolution
rvars == <<name, prefix, targets, uidrun, files, onpath, path>>

\* ------------------------------------------------------------------------
\* Python values and string primitives
\* ------------------------------------------------------------------------

\* Python None
None == <<"None">>

\* truth value of a str-or-None object: `if s`
Truthy(s) == s # None /\ s # <<>>

\* s.startswith(p)
StartsWith(s, p) == Len(s) >= Len(p) /\ SubSeq(s, 1, Len(p)) = p

\* s.find(sub, from): lowest index i >= from at which sub occurs in s, 0 if none
Find(s, sub, from) ==
    LET hits == {i \in from..(Len(s) - Len(sub) + 1) : SubSeq(s, i, i + Len(sub) - 1) = sub}
    IN  IF hits = {} THEN 0 ELSE CHOOSE i \in hits : \A j \in hits : i <= j

\* sub in s
Contains(s, sub) == Find(s, sub, 1) # 0

\* the namespace separator
separator == <<".">>

\* ------------------------------------------------------------------------
\* targetuid
\* ------------------------------------------------------------------------

\* mutant: join with the operands swapped
Join2_swapped(p, n) == n \o separator \o p

\* separator.join([prefix, name])
Join2(p, n) == p \o separator \o n

\* mutant: prefix.rsplit(separator, 1)
Split1_last(p) ==
    LET idx == {i \in 1..Len(p) : p[i] = separator[1]}
    IN  IF idx = {} THEN <<p>>
        ELSE LET i == CHOOSE k \in idx : \A j \in idx : j <= k
             IN  <<SubSeq(p, 1, i - 1), SubSeq(p, i + 1, Len(p))>>

\* prefix.split(separator, 1)
Split1(p) ==
    LET i == Find(p, separator, 1)
    IN  IF i = 0 THEN <<p>>
        ELSE <<SubSeq(p, 1, i - 1), SubSeq(p, i + 1, Len(p))>>

\* the while loop of targetuid; tried records the candidates tested, in order
RECURSIVE targetuid_loop(_, _, _, _)
targetuid_loop(p, n, tgts, tried) ==
    LET cand  == Join2(p, n)
        parts == Split1(p)
    IN  IF cand \in DOMAIN tgts
        THEN [uid |-> cand, tried |-> Append(tried, cand)]
        ELSE IF Len(parts) = 1
        THEN [uid |-> n, tried |-> Append(tried, cand)]
        ELSE targetuid_loop(parts[1], n, tgts, Append(tried, cand))

\* targetuid together with the candidates its loop tested
targetuid_run(n, p, tgts) ==
    IF ~Truthy(n) THEN [uid |-> None, tried |-> <<>>]
    ELSE IF StartsWith(n, separator) THEN [uid |-> n, tried |-> <<>>]
    ELSE IF p = None \/ DOMAIN tgts = {} THEN [uid |-> n, tried |-> <<>>]
    ELSE targetuid_loop(p, n, tgts, <<>>)

targetuid(n, p, tgts) == targetuid_run(n, p, tgts).uid

\* ------------------------------------------------------------------------
\* istarget, exepath
\* ------------------------------------------------------------------------

\* istarget
istarget(n, p, tgts) ==
    LET uid == targetuid(n, p, tgts)
    IN  IF ~Truthy(uid) \/ DOMAIN tgts = {} THEN FALSE
        ELSE (IF StartsWith(uid, separator) THEN Tail(uid) ELSE uid) \in DOMAIN tgts

\* str.replace(old, new): the non-overlapping occurrences, left to right
RECURSIVE Replace(_, _, _)
Replace(s, old, new) ==
    LET i == Find(s, old, 1)
    IN  IF i = 0 THEN s
        ELSE SubSeq(s, 1, i - 1) \o new
                 \o Replace(SubSeq(s, i + Len(old), Len(s)), old, new)

\* str.split(sep)
RECURSIVE SplitAll(_, _)
SplitAll(s, sep) ==
    LET i == Find(s, sep, 1)
    IN  IF i = 0 THEN <<s>>
        ELSE <<SubSeq(s, 1, i - 1)>> \o SplitAll(SubSeq(s, i + Len(sep), Len(s)), sep)

\* sep.join(parts)
RECURSIVE JoinAll(_, _)
JoinAll(parts, sep) ==
    IF parts = <<>> THEN <<>>
    ELSE IF Len(parts) = 1 THEN parts[1]
    ELSE parts[1] \o sep \o JoinAll(Tail(parts), sep)

\* os.path.join(a, b) of posixpath
PathJoin(a, b) ==
    IF StartsWith(b, <<"/">>) THEN b
    ELSE IF a = <<>> \/ a[Len(a)] = "/" THEN a \o b
    ELSE a \o <<"/">> \o b

\* the component loop of posixpath.normpath
RECURSIVE NormComps(_, _, _)
NormComps(comps, acc, rooted) ==
    IF comps = <<>> THEN acc
    ELSE LET c == Head(comps)
         IN  IF c = <<>> \/ c = <<".">> THEN NormComps(Tail(comps), acc, rooted)
             ELSE IF \/ c # <<".", ".">>
                     \/ (~rooted /\ acc = <<>>)
                     \/ (acc # <<>> /\ acc[Len(acc)] = <<".", ".">>)
             THEN NormComps(Tail(comps), Append(acc, c), rooted)
             ELSE IF acc # <<>>
             THEN NormComps(Tail(comps), SubSeq(acc, 1, Len(acc) - 1), rooted)
             ELSE NormComps(Tail(comps), acc, rooted)

\* os.path.normpath of posixpath
normpath(p) ==
    IF p = <<>> THEN <<".">>
    ELSE LET lead == IF ~StartsWith(p, <<"/">>) THEN <<>>
                     ELSE IF StartsWith(p, <<"/", "/">>) /\ ~StartsWith(p, <<"/", "/", "/">>)
                     THEN <<"/", "/">>
                     ELSE <<"/">>
             res  == lead \o JoinAll(NormComps(SplitAll(p, <<"/">>), <<>>, lead # <<>>), <<"/">>)
         IN  IF res = <<>> THEN <<".">> ELSE res

\* directory of the module, os.path.dirname(os.path.realpath(__file__))
MODULE_DIR == <<"/", "m">>

\* os.path.realpath(sys.argv[0]), the running program
Argv0Path == <<"/", "m", "/", "s", "e", "l", "f">>

\* the placeholder of the build configuration directory
IntDirToken == <<"$", "(", "I", "n", "t", "D", "i", "r", ")">>

\* the configurations tried for the placeholder, in the order of the source
IntDirs ==
    << <<"R", "e", "l", "e", "a", "s", "e">>,
       <<"D", "e", "b", "u", "g">>,
       <<"R", "e", "l", "W", "i", "t", "h", "D", "e", "b", "I", "n", "f", "o">>,
       <<"M", "i", "n", "S", "i", "z", "e", "R", "e", "l">> >>

\* the for loop over the configurations: path after the loop
RECURSIVE intdir_loop(_, _, _)
intdir_loop(p, i, fs) ==
    IF i > Len(IntDirs) THEN p
    ELSE LET tmppath == Replace(p, IntDirToken, IntDirs[i])
         IN  IF tmppath \in fs THEN tmppath ELSE intdir_loop(p, i + 1, fs)

\* the placeholder handling of exepath
SubstituteIntDir(p, fs) ==
    IF Contains(p, IntDirToken)
    THEN Replace(intdir_loop(p, 1, fs), IntDirToken, <<>>)
    ELSE p

\* which.which(name): the path found in PATH, None on WhichError
Which(n, found) == IF n \in found THEN <<"/", "b", "i", "n", "/">> \o n ELSE None

\* exepath
exepath(n, p, tgts, fs, found) ==
    IF n = None THEN Argv0Path
    ELSE IF istarget(n, p, tgts)
    THEN LET uid0 == targetuid(n, p, tgts)
             uid  == IF StartsWith(uid0, separator) THEN Tail(uid0) ELSE uid0
         IN  SubstituteIntDir(normpath(PathJoin(MODULE_DIR, tgts[uid])), fs)
    ELSE Which(n, found)

\* ------------------------------------------------------------------------
\* tostring, qsplit
\* ------------------------------------------------------------------------

\* the vertical tab, character 0x0b (written literally between the quotes)
VT == ""

\* the characters the pattern \s of tostring matches
RegexSpace == {" ", "\t", "\n", "\r", "\f", VT}

\* re_quote_or_not.search(arg): a single quote, white space, or the empty string
NeedsQuotes(arg) ==
    arg = <<>> \/ \E i \in 1..Len(arg) : arg[i] = "'" \/ arg[i] \in RegexSpace

\* one element of qargs: double quotes escaped, surrounded by quotes if necessary
QuoteArg(arg) ==
    LET esc == Replace(arg, <<"\"">>, <<"\\", "\"">>)
    IN  IF NeedsQuotes(esc) THEN <<"\"">> \o esc \o <<"\"">> ELSE esc

\* tostring
tostring(args) == JoinAll([i \in 1..Len(args) |-> QuoteArg(args[i])], <<" ">>)

\* shlex in POSIX mode with whitespace_split, as shlex.split sets it up
ShlexWhitespace == {" ", "\t", "\r", "\n"}
ShlexQuotes == {"'", "\""}
ShlexEscape == {"\\"}
ShlexEscapedQuotes == {"\""}

\* the result of qsplit when shlex raises ValueError
ValueError == << <<"ValueError">> >>

\* the scanner of shlex (read_token over the whole input): st is the state of
\* the lexer (" " between tokens, "a" in a word, a quote, or the escape
\* character), tok the token read so far, esc the state an escape returns to,
\* out the tokens returned so far
RECURSIVE ShlexScan(_, _, _, _, _, _)
ShlexScan(s, i, st, tok, esc, out) ==
    IF i > Len(s)
    THEN IF st \in ShlexQuotes \/ st \in ShlexEscape THEN ValueError
         ELSE IF st = "a" THEN Append(out, tok)
         ELSE out
    ELSE LET c == s[i]
         IN  IF st = " "
             THEN IF c \in ShlexWhitespace THEN ShlexScan(s, i + 1, " ", <<>>, esc, out)
                  ELSE IF c \in ShlexEscape THEN ShlexScan(s, i + 1, c, <<>>, "a", out)
                  ELSE IF c \in ShlexQuotes THEN ShlexScan(s, i + 1, c, <<>>, esc, out)
                  ELSE ShlexScan(s, i + 1, "a", <<c>>, esc, out)
             ELSE IF st \in ShlexQuotes
             THEN IF c = st THEN ShlexScan(s, i + 1, "a", tok, esc, out)
                  ELSE IF c \in ShlexEscape /\ st \in ShlexEscapedQuotes
                  THEN ShlexScan(s, i + 1, c, tok, st, out)
                  ELSE ShlexScan(s, i + 1, st, Append(tok, c), esc, out)
             ELSE IF st \in ShlexEscape
             THEN IF esc \in ShlexQuotes /\ c # st /\ c # esc
                  THEN ShlexScan(s, i + 1, esc, tok \o <<st, c>>, esc, out)
                  ELSE ShlexScan(s, i + 1, esc, Append(tok, c), esc, out)
             ELSE \* st = "a"
                  IF c \in ShlexWhitespace
                  THEN ShlexScan(s, i + 1, " ", <<>>, esc, Append(out, tok))
                  ELSE IF c \in ShlexQuotes THEN ShlexScan(s, i + 1, c, tok, esc, out)
                  ELSE IF c \in ShlexEscape THEN ShlexScan(s, i + 1, c, tok, "a", out)
                  ELSE ShlexScan(s, i + 1, "a", Append(tok, c), esc, out)

\* qsplit: shlex.split(args)
qsplit(s) == ShlexScan(s, 1, " ", <<>>, " ", <<>>)

\* ------------------------------------------------------------------------
\* execute: values
\* ------------------------------------------------------------------------

\* an invocation: type(args) and its value
NoInvocation == [type |-> "list", val |-> <<>>]

\* the defaults of the keyword arguments of execute
DefaultOptions ==
    [quiet |-> FALSE, stdout |-> FALSE, allow_fail |-> FALSE, verbose |-> 0,
     simulate |-> FALSE]

\* the locals of execute before the call: argv is args, path the resolved
\* executable, shown the text written to sys.stdout by lines 299-303, output the capture
\* buffer, echoed the child's lines written to sys.stdout, errfwd what was
\* written to sys.stderr, outcome "none", "returned" or the exception raised,
\* ret the returned value (<<status>> or <<status, output>>)
NoCall ==
    [argv |-> <<>>, path |-> None, shown |-> <<>>, output |-> <<>>,
     echoed |-> <<>>, errfwd |-> <<>>, status |-> 0, outcome |-> "none",
     ret |-> <<>>]

\* no child process: script is the child's program (a sequence of steps: "o"
\* writes a line to its stdout, "e" a line to its stderr, "c" closes its
\* stdout), n the steps done, code its exit code, outPipe and errPipe the lines
\* in the two pipes, outClosed whether the child closed its stdout, outEOF
\* whether the parent read end-of-file on stdout, errbuf what communicate()
\* read of stderr, reaped whether the parent waited for the child
NoProcess ==
    [spawned |-> FALSE, script |-> <<>>, n |-> 0, code |-> 0, outPipe |-> <<>>,
     errPipe |-> <<>>, outClosed |-> FALSE, exited |-> FALSE, outEOF |-> FALSE,
     errbuf |-> <<>>, reaped |-> FALSE]

\* ------------------------------------------------------------------------
\* execute: the steps of the call
\* ------------------------------------------------------------------------

\* lines 289-293: args as a list of strings, or the exception raised
Preflight(i) ==
    IF i.type = "list"
    THEN IF Len(i.val) = 0 THEN [err |-> "Exception", args |-> <<>>]
         ELSE [err |-> "none", args |-> i.val]
    ELSE IF i.type = "str"
    THEN LET a == qsplit(i.val)
         IN  IF a = ValueError THEN [err |-> "ValueError", args |-> <<>>]
             ELSE IF Len(a) = 0 THEN [err |-> "Exception", args |-> <<>>]
             ELSE [err |-> "none", args |-> a]
    ELSE [err |-> "Exception", args |-> <<>>]

\* mutant: the resolved path is never tested
NotFound_unchecked(p) == FALSE

\* line 296: `if not path`
NotFound(p) == ~Truthy(p)

\* mutant: the child is run also when simulating
RunsChild_always(sim) == TRUE

\* line 307: `if not simulate`
RunsChild(sim) == ~sim

\* mutant: allow_fail is ignored
CommandFailed_strict(status, allow_fail) == status # 0

\* line 332: `if status != 0 and not allow_fail`
CommandFailed(status, allow_fail) == status # 0 /\ ~allow_fail

\* lines 299-303: the text written to sys.stdout before the command is run
ShownLine(argv, o) ==
    IF o.verbose > 0 \/ o.simulate
    THEN <<"$", " ">> \o tostring(argv)
             \o (IF o.simulate THEN <<" ", "(", "s", "i", "m", "u", "l", "a", "t", "e", "d", ")">> ELSE <<>>) \o <<"\n">>
    ELSE <<>>

\* the classes of Python 2 that are not Exception or derived from it:
\* BaseException itself and its other subclasses; no clause of lines 324-330
\* catches them
NotAnException == {"BaseException", "KeyboardInterrupt", "SystemExit", "GeneratorExit"}

\* lines 324-330: what execute raises when an exception of class cls is raised
\* inside the try block.  An OSError is wrapped by the first clause, any other
\* Exception by the second, and the rest leaves execute as it is.
Raised(cls) ==
    IF cls = "OSError" THEN "SubprocessError: OSError"
    ELSE IF cls \notin NotAnException THEN "SubprocessError: Exception"
    ELSE cls

\* lines 331-336: par after the final test of the exit status
Finished(pr, status, output, o) ==
    IF CommandFailed(status, o.allow_fail)
    THEN [pr EXCEPT !.status = status, !.output = output,
                    !.outcome = "SubprocessError: Failed"]
    ELSE [pr EXCEPT !.status = status, !.output = output, !.outcome = "returned",
                    !.ret = IF o.stdout THEN <<status, output>> ELSE <<status>>]

\* the lines the child writes to its stderr in the whole of its run, as the
\* numbers of its writes
RECURSIVE WritesTo(_, _, _)
WritesTo(script, op, k) ==
    IF k > Len(script) THEN <<>>
    ELSE (IF script[k] = op THEN <<k>> ELSE <<>>) \o WritesTo(script, op, k + 1)

\* the child's stdout is at end-of-file: nothing left in the pipe, and the
\* child closed its end or exited
StdoutAtEOF(p) == p.outPipe = <<>> /\ (p.outClosed \/ p.exited)

\* process.communicate() returns: end-of-file on stderr and the child waited for
CommunicateReturns(p) == p.errPipe = <<>> /\ p.exited

\* ------------------------------------------------------------------------
\* Inputs of the name resolution
\* ------------------------------------------------------------------------

\* longest namespace prefix, in segments
MaxSegs == 3
\* largest registry, in keys
MaxKeys == 2

Segments == {<<"a">>, <<"b">>}

RECURSIVE PrefixesOfSegs(_)
PrefixesOfSegs(k) ==
    IF k = 1 THEN Segments
    ELSE {p \o <<".">> \o s : p \in PrefixesOfSegs(k - 1), s \in Segments}

\* prefixes with an empty segment
OddPrefixes == {<<".", "a">>, <<"a", ".">>, <<"a", ".", ".", "b">>}

StrPrefixes == {<<>>} \cup OddPrefixes \cup UNION {PrefixesOfSegs(k) : k \in 1..MaxSegs}

PrefixInputs == {None} \cup StrPrefixes

NameInputs == {None, <<>>, <<"t">>, <<".", "t">>}

KeyUniverse ==
    {p \o <<".", "t">> : p \in StrPrefixes} \cup {<<"t">>, <<"a", ".", ".", "t">>}

RECURSIVE KeySets(_)
KeySets(k) ==
    IF k = 0 THEN {{}}
    ELSE LET prev == KeySets(k - 1)
         IN  prev \cup {s \cup {x} : s \in prev, x \in KeyUniverse}

\* a registry with the given keys; the stored path plays no part in targetuid
RegistryOf(keys) == [k \in keys |-> <<"x">>]

\* ------------------------------------------------------------------------
\* Specification of targetuid
\* ------------------------------------------------------------------------

InitUid ==
    /\ pc = "call"
    /\ name \in NameInputs
    /\ prefix \in PrefixInputs
    /\ targets \in {RegistryOf(ks) : ks \in KeySets(MaxKeys)}
    /\ uidrun = [uid |-> None, tried |-> <<>>]
    /\ files = {}
    /\ onpath = {}
    /\ path = None
    /\ qargs = <<>> /\ qstr = <<>> /\ qback = <<>>
    /\ inv = NoInvocation /\ opt = DefaultOptions /\ par = NoCall /\ proc = NoProcess

CallTargetuid ==
    /\ pc = "call"
    /\ pc' = "done"
    /\ uidrun' = targetuid_run(name, prefix, targets)
    /\ UNCHANGED <<name, prefix, targets, files, onpath, path>>
    /\ UNCHANGED <<qvars, xvars>>

NextUid == CallTargetuid

SpecUid == InitUid /\ [][NextUid]_vars

\* ------------------------------------------------------------------------
\* Claims about targetuid
\* ------------------------------------------------------------------------

\* the call is one the loop of targetuid handles: non-empty, non-rooted name,
\* present prefix, non-empty registry
Qualifiable ==
    /\ Truthy(name)
    /\ ~StartsWith(name, separator)
    /\ prefix # None
    /\ DOMAIN targets # {}

\* the part of a prefix before its first separator
HeadOf(p) ==
    CHOOSE h \in {SubSeq(p, 1, k) : k \in 0..Len(p)} :
        /\ \A i \in 1..Len(h) : h[i] # "."
        /\ (Len(h) = Len(p) \/ p[Len(h) + 1] = ".")

\* C1 as stated: for every name, every prefix p and every registry holding the
\* key p + "." + name, targetuid returns exactly that key.
C1_AsStated ==
    (pc = "done" /\ name # None /\ prefix # None
        /\ (prefix \o <<".">> \o name) \in DOMAIN targets)
    => uidrun.uid = (prefix \o <<".">> \o name)

\* C1 amended: for every non-empty name that does not start with the separator,
\* every prefix p and every registry holding the key p + "." + name, targetuid
\* returns exactly that key.
C1_FullPrefixKeyReturned ==
    (pc = "done" /\ Truthy(name) /\ ~StartsWith(name, separator) /\ prefix # None
        /\ (prefix \o <<".">> \o name) \in DOMAIN targets)
    => uidrun.uid = (prefix \o <<".">> \o name)

C1_Witness ==
    /\ pc = "done"
    /\ name = <<"t">>
    /\ prefix = <<"a", ".", "b", ".", "a">>
    /\ (prefix \o <<".">> \o name) \in DOMAIN targets
    /\ uidrun.uid = <<"a", ".", "b", ".", "a", ".", "t">>

\* C8: for a non-empty, non-rooted name, a present prefix and a non-empty
\* registry, targetuid tests prefix + "." + name, then (only when the prefix
\* holds a separator) head + "." + name, head being the prefix before its first
\* separator; it returns the first tested candidate that is a key, tests nothing
\* else, returns name when neither is a key, and its loop ends after at most
\* two tests.
C8_CandidateOrder ==
    (pc = "done" /\ Qualifiable) =>
        LET full  == prefix \o <<".">> \o name
            short == HeadOf(prefix) \o <<".">> \o name
            split == \E i \in 1..Len(prefix) : prefix[i] = "."
            keys  == DOMAIN targets
        IN  /\ uidrun.tried =
                 (IF full \in keys \/ ~split THEN <<full>> ELSE <<full, short>>)
            /\ uidrun.uid =
                 (IF full \in keys THEN full
                  ELSE IF split /\ short \in keys THEN short
                  ELSE name)

\* a three-segment prefix whose full candidate is unknown, whose two-segment
\* candidate is a key and is not tried, and whose head candidate is returned
C8_Witness ==
    /\ pc = "done"
    /\ name = <<"t">>
    /\ prefix = <<"a", ".", "b", ".", "a">>
    /\ DOMAIN targets = {<<"a", ".", "b", ".", "t">>, <<"a", ".", "t">>}
    /\ uidrun.tried = <<<<"a", ".", "b", ".", "a", ".", "t">>, <<"a", ".", "t">>>>
    /\ uidrun.uid = <<"a", ".", "t">>

\* ------------------------------------------------------------------------
\* Specification of exepath
\* ------------------------------------------------------------------------

\* longest registry path, in pieces
MaxPieces == 3

\* the pieces registry paths are built of
Pieces ==
    { <<"b", "/">>,
      <<".", ".", "/">>,
      IntDirToken,
      <<"$", "(", "I", "n", "t">>,
      <<"D", "i", "r", ")">> }

RECURSIVE PathsOfPieces(_)
PathsOfPieces(k) ==
    IF k = 0 THEN {<<>>}
    ELSE {p \o q : p \in PathsOfPieces(k - 1), q \in Pieces}

RelPaths == UNION {PathsOfPieces(k) : k \in 1..MaxPieces}

ExeNames == {None, <<"t">>, <<".", "a", ".", "t">>, <<"u">>}

ExeKeys == {<<"t">>, <<"a", ".", "t">>}

InitExe ==
    /\ pc = "call"
    /\ name \in ExeNames
    /\ prefix \in {None, <<"a">>}
    /\ \E key \in ExeKeys, rel \in RelPaths, existing \in SUBSET (1..Len(IntDirs)) :
          /\ targets = [k \in {key} |-> rel]
          /\ files = {Replace(normpath(PathJoin(MODULE_DIR, rel)), IntDirToken, IntDirs[i]) :
                         i \in existing}
    /\ onpath \in SUBSET {<<"u">>}
    /\ uidrun = [uid |-> None, tried |-> <<>>]
    /\ path = None
    /\ qargs = <<>> /\ qstr = <<>> /\ qback = <<>>
    /\ inv = NoInvocation /\ opt = DefaultOptions /\ par = NoCall /\ proc = NoProcess

CallExepath ==
    /\ pc = "call"
    /\ pc' = "done"
    /\ path' = exepath(name, prefix, targets, files, onpath)
    /\ UNCHANGED <<name, prefix, targets, uidrun, files, onpath>>
    /\ UNCHANGED <<qvars, xvars>>

NextExe == CallExepath

SpecExe == InitExe /\ [][NextExe]_vars

\* ------------------------------------------------------------------------
\* Claims about exepath
\* ------------------------------------------------------------------------

\* the absolute path the registry stores for the resolved target
StoredPath ==
    LET uid0 == targetuid(name, prefix, targets)
        uid  == IF StartsWith(uid0, separator) THEN Tail(uid0) ELSE uid0
    IN  normpath(PathJoin(MODULE_DIR, targets[uid]))

\* exepath resolved a known target whose path holds the placeholder
PlaceholderCase ==
    /\ pc = "done"
    /\ name # None
    /\ istarget(name, prefix, targets)
    /\ Contains(StoredPath, IntDirToken)

\* the result C9 describes: the first existing substitution, else the removal
C9_Expected ==
    LET ex == {i \in 1..Len(IntDirs) : Replace(StoredPath, IntDirToken, IntDirs[i]) \in files}
    IN  IF ex = {} THEN Replace(StoredPath, IntDirToken, <<>>)
        ELSE Replace(StoredPath, IntDirToken, IntDirs[CHOOSE i \in ex : \A j \in ex : i <= j])

\* the first half of C9 alone: which path is returned
C9_ResultIsExpected == PlaceholderCase => path = C9_Expected

\* C9: for a known target whose path holds $(IntDir), exepath returns the path
\* with the placeholder replaced by the first of Release, Debug, RelWithDebInfo,
\* MinSizeRel whose substituted path is a regular file, or with the placeholder
\* removed when none is; in every case the result holds no placeholder.
C9_PlaceholderResolved ==
    PlaceholderCase => (path = C9_Expected /\ ~Contains(path, IntDirToken))

\* ------------------------------------------------------------------------
\* Specification of tostring followed by qsplit
\* ------------------------------------------------------------------------

\* longest argument, in characters
MaxArgLen == 3
\* longest argument list
MaxArgs == 2

ArgChars == {"a", " ", VT, "'", "\\", "\""}

RECURSIVE StringsOfLen(_)
StringsOfLen(k) ==
    IF k = 0 THEN {<<>>}
    ELSE {Append(w, c) : w \in StringsOfLen(k - 1), c \in ArgChars}

\* the strings of at most n characters
ArgStrings(n) == UNION {StringsOfLen(k) : k \in 0..n}

\* the lists of k arguments of at most n characters
RECURSIVE ListsOfLen(_, _)
ListsOfLen(k, n) ==
    IF k = 0 THEN {<<>>}
    ELSE {Append(l, a) : l \in ListsOfLen(k - 1, n), a \in ArgStrings(n)}

\* the lists of at most m arguments of at most n characters
ArgLists(m, n) == UNION {ListsOfLen(k, n) : k \in 0..m}

InitQuote ==
    /\ pc = "call"
    /\ qargs \in ArgLists(MaxArgs, MaxArgLen)
    /\ qstr = <<>>
    /\ qback = <<>>
    /\ name = None /\ prefix = None /\ targets = <<>>
    /\ uidrun = [uid |-> None, tried |-> <<>>]
    /\ files = {} /\ onpath = {} /\ path = None
    /\ inv = NoInvocation /\ opt = DefaultOptions /\ par = NoCall /\ proc = NoProcess

CallTostring ==
    /\ pc = "call"
    /\ pc' = "quoted"
    /\ qstr' = tostring(qargs)
    /\ UNCHANGED <<qargs, qback>>
    /\ UNCHANGED <<rvars, xvars>>

CallQsplit ==
    /\ pc = "quoted"
    /\ pc' = "done"
    /\ qback' = qsplit(qstr)
    /\ UNCHANGED <<qargs, qstr>>
    /\ UNCHANGED <<rvars, xvars>>

NextQuote == CallTostring \/ CallQsplit

SpecQuote == InitQuote /\ [][NextQuote]_vars

\* ------------------------------------------------------------------------
\* Claims about tostring and qsplit
\* ------------------------------------------------------------------------

\* no argument of the list holds a double quote
NoDoubleQuote(args) ==
    \A i \in 1..Len(args) : \A j \in 1..Len(args[i]) : args[i][j] # "\""

\* C7: for every argument list whose arguments hold no double quote,
\* qsplit(tostring(args)) equals args.
C7_RoundTrip ==
    (pc = "done" /\ NoDoubleQuote(qargs)) => qback = qargs

\* ------------------------------------------------------------------------
\* Specification of execute
\*
\* The parent (execute) and its child run concurrently and meet at the two
\* pipes.  The environment raises an exception of any class of
\* ExceptionClasses inside the try block of lines 309-330: in Popen, at any
\* moment of the loop over the child's stdout, inside communicate(), or while
\* stderr is forwarded and the exit code taken (lines 321-323).  The
\* except clauses decide what leaves execute (Raised).  Writes to the parent's
\* own sys.stdout and sys.stderr succeed.
\* ------------------------------------------------------------------------

\* capacity of each of the two pipes, in lines
PipeCap == 2
\* longest child program, in steps
MaxWrites == 3

\* the classes of the exceptions raised inside the try block of execute
ExceptionClasses ==
    {"OSError", "IOError", "ValueError", "KeyboardInterrupt", "SystemExit", "BaseException"}

\* the exit codes of the child (negative: killed by a signal)
ExitCodes == {-1, 0, 1}

Verbosities == {0, 1}

RECURSIVE ScriptsOfLen(_)
ScriptsOfLen(k) ==
    IF k = 0 THEN {<<>>}
    ELSE {Append(w, op) : w \in ScriptsOfLen(k - 1), op \in {"o", "e", "c"}}

\* the child programs: stdout is closed at most once and not written afterwards
Scripts ==
    {w \in UNION {ScriptsOfLen(k) : k \in 0..MaxWrites} :
        \A i \in 1..Len(w) : w[i] = "c" => \A j \in (i + 1)..Len(w) : w[j] = "e"}

\* the invocations: "t" names a build target, "u" a command found in PATH,
\* "n" a command found nowhere
Invocations ==
    { [type |-> "list", val |-> <<>>],
      [type |-> "list", val |-> << <<"t">> >>],
      [type |-> "list", val |-> << <<"u">>, <<"x", " ", "y">> >>],
      [type |-> "list", val |-> << <<"n">>, <<"x">> >>],
      [type |-> "str", val |-> <<"u", " ", "x">>],
      [type |-> "str", val |-> <<"n">>],
      [type |-> "str", val |-> <<"u", " ", "\"", "x">>],
      [type |-> "str", val |-> <<>>],
      [type |-> "other", val |-> <<>>] }

InitExec ==
    /\ pc = "call"
    /\ name = None
    /\ prefix = <<"a">>
    /\ targets = [k \in {<<"a", ".", "t">>} |-> <<"b", "/", "$", "(", "I", "n", "t", "D", "i", "r", ")", "/", "t">>]
    /\ files = {<<"/", "m", "/", "b", "/", "D", "e", "b", "u", "g", "/", "t">>}
    /\ onpath = {<<"u">>}
    /\ uidrun = [uid |-> None, tried |-> <<>>]
    /\ path = None
    /\ qargs = <<>> /\ qstr = <<>> /\ qback = <<>>
    /\ inv = NoInvocation /\ opt = DefaultOptions /\ par = NoCall /\ proc = NoProcess

\* execute, lines 287-310: the arguments are normalised, the executable is
\* resolved, the command line is shown; then the child is spawned, or, when
\* simulating, the call ends with lines 331-336
Execute ==
    /\ pc = "call"
    /\ \E i \in Invocations, q \in BOOLEAN, cap \in BOOLEAN, af \in BOOLEAN,
          vb \in Verbosities, sim \in BOOLEAN :
          LET o   == [quiet |-> q, stdout |-> cap, allow_fail |-> af, verbose |-> vb,
                      simulate |-> sim]
              pre == Preflight(i)
              p   == exepath(pre.args[1], prefix, targets, files, onpath)
              pr  == [NoCall EXCEPT !.argv = [pre.args EXCEPT ![1] = p], !.path = p,
                                    !.shown = ShownLine([pre.args EXCEPT ![1] = p], o)]
          IN  /\ inv' = i
              /\ opt' = o
              /\ IF pre.err # "none"
                 THEN /\ par' = [NoCall EXCEPT !.outcome = pre.err]
                      /\ pc' = "done"
                      /\ proc' = proc
                 ELSE IF NotFound(p)
                 THEN /\ par' = [NoCall EXCEPT !.argv = pre.args,
                                    !.outcome = "SubprocessError: Command not found"]
                      /\ pc' = "done"
                      /\ proc' = proc
                 ELSE IF RunsChild(sim)
                 THEN \/ \E sc \in Scripts, c \in ExitCodes :
                            /\ proc' = [NoProcess EXCEPT !.spawned = TRUE, !.script = sc,
                                                         !.code = c]
                            /\ par' = pr
                            /\ pc' = "reading"
                      \/ \E cls \in ExceptionClasses :
                            /\ par' = [pr EXCEPT !.outcome = Raised(cls)]
                            /\ pc' = "done"
                            /\ proc' = proc
                 ELSE /\ par' = Finished(pr, 0, <<>>, o)
                      /\ pc' = "done"
                      /\ proc' = proc
    /\ UNCHANGED <<rvars, qvars>>

\* lines 312-317, one iteration: a line of the child's stdout is read, appended
\* to the capture buffer if stdout, and printed unless quiet
ReadLine ==
    /\ pc = "reading"
    /\ proc.outPipe # <<>>
    /\ proc' = [proc EXCEPT !.outPipe = Tail(@)]
    /\ par' = [par EXCEPT
                 !.output = IF opt.stdout THEN Append(@, Head(proc.outPipe)) ELSE @,
                 !.echoed = IF opt.quiet THEN @ ELSE Append(@, Head(proc.outPipe))]
    /\ UNCHANGED <<pc, inv, opt, rvars, qvars>>

\* lines 312 and 324-330: an exception is raised inside the loop over the
\* child's stdout, at any moment of it; the except clauses decide what leaves
\* execute
ReadFailure ==
    /\ pc = "reading"
    /\ \E cls \in ExceptionClasses : par' = [par EXCEPT !.outcome = Raised(cls)]
    /\ pc' = "done"
    /\ UNCHANGED <<proc, inv, opt, rvars, qvars>>

\* line 312, end of the loop: end-of-file on the child's stdout
ReadEOF ==
    /\ pc = "reading"
    /\ StdoutAtEOF(proc)
    /\ proc' = [proc EXCEPT !.outEOF = TRUE]
    /\ pc' = "communicate"
    /\ UNCHANGED <<par, inv, opt, rvars, qvars>>

\* line 319, inside communicate(): a line of the child's stderr is read
CommunicateRead ==
    /\ pc = "communicate"
    /\ proc.errPipe # <<>>
    /\ proc' = [proc EXCEPT !.errPipe = Tail(@), !.errbuf = Append(@, Head(proc.errPipe))]
    /\ UNCHANGED <<pc, par, inv, opt, rvars, qvars>>

\* lines 319 and 324-330: an exception is raised inside communicate(), at any
\* moment of it; the except clauses decide what leaves execute
CommunicateFailure ==
    /\ pc = "communicate"
    /\ \E cls \in ExceptionClasses : par' = [par EXCEPT !.outcome = Raised(cls)]
    /\ pc' = "done"
    /\ UNCHANGED <<proc, inv, opt, rvars, qvars>>

\* line 319: communicate() returns with all of the child's stderr, the child
\* waited for
CommunicateDone ==
    /\ pc = "communicate"
    /\ CommunicateReturns(proc)
    /\ proc' = [proc EXCEPT !.reaped = TRUE]
    /\ pc' = "forward"
    /\ UNCHANGED <<par, inv, opt, rvars, qvars>>

\* line 321, one iteration: the next piece of err is written to sys.stderr
ForwardLine ==
    /\ pc = "forward"
    /\ Len(par.errfwd) < Len(proc.errbuf)
    /\ par' = [par EXCEPT !.errfwd = Append(@, proc.errbuf[Len(par.errfwd) + 1])]
    /\ UNCHANGED <<pc, proc, inv, opt, rvars, qvars>>

\* lines 321-323 and 324-330: an exception is raised while err is forwarded or
\* the exit code is taken, at any moment of it; the except clauses decide what
\* leaves execute
ForwardFailure ==
    /\ pc = "forward"
    /\ \E cls \in ExceptionClasses : par' = [par EXCEPT !.outcome = Raised(cls)]
    /\ pc' = "done"
    /\ UNCHANGED <<proc, inv, opt, rvars, qvars>>

\* lines 321-336, after the last iteration: the exit code is taken and tested,
\* and the call returns or raises
ReturnOrRaise ==
    /\ pc = "forward"
    /\ Len(par.errfwd) = Len(proc.errbuf)
    /\ par' = Finished(par, proc.code, par.output, opt)
    /\ pc' = "done"
    /\ UNCHANGED <<proc, inv, opt, rvars, qvars>>

\* the child writes the next line of its script; the write blocks while the
\* pipe is full
ChildWrite ==
    /\ proc.spawned
    /\ ~proc.exited
    /\ proc.n < Len(proc.script)
    /\ proc.script[proc.n + 1] # "c"
    /\ LET op == proc.script[proc.n + 1]
       IN  IF op = "o"
           THEN /\ Len(proc.outPipe) < PipeCap
                /\ proc' = [proc EXCEPT !.n = @ + 1, !.outPipe = Append(@, proc.n + 1)]
           ELSE /\ Len(proc.errPipe) < PipeCap
                /\ proc' = [proc EXCEPT !.n = @ + 1, !.errPipe = Append(@, proc.n + 1)]
    /\ UNCHANGED <<pc, par, inv, opt, rvars, qvars>>

\* the child closes its stdout
ChildClose ==
    /\ proc.spawned
    /\ ~proc.exited
    /\ proc.n < Len(proc.script)
    /\ proc.script[proc.n + 1] = "c"
    /\ proc' = [proc EXCEPT !.n = @ + 1, !.outClosed = TRUE]
    /\ UNCHANGED <<pc, par, inv, opt, rvars, qvars>>

\* the child exits at the end of its script, which closes its ends of the pipes
ChildExit ==
    /\ proc.spawned
    /\ ~proc.exited
    /\ proc.n = Len(proc.script)
    /\ proc' = [proc EXCEPT !.exited = TRUE]
    /\ UNCHANGED <<pc, par, inv, opt, rvars, qvars>>

NextExec ==
    \/ Execute
    \/ ReadLine
    \/ ReadFailure
    \/ ReadEOF
    \/ CommunicateRead
    \/ CommunicateDone
    \/ CommunicateFailure
    \/ ForwardLine
    \/ ForwardFailure
    \/ ReturnOrRaise
    \/ ChildWrite
    \/ ChildClose
    \/ ChildExit

SpecExec == InitExec /\ [][NextExec]_vars

\* the steps execute and its child take by themselves: every step but the
\* exceptions the environment raises inside the try block
Progress ==
    \/ Execute
    \/ ReadLine
    \/ ReadEOF
    \/ CommunicateRead
    \/ CommunicateDone
    \/ ForwardLine
    \/ ReturnOrRaise
    \/ ChildWrite
    \/ ChildClose
    \/ ChildExit

\* the parent and the child are scheduled fairly; no exception is owed
FairSpecExec == SpecExec /\ WF_vars(Progress)

\* ------------------------------------------------------------------------
\* Claims about execute
\* ------------------------------------------------------------------------

\* the call has ended: it returned or raised
Ended == pc = "done" /\ par.outcome # "none"

\* the invocation is a non-empty list of arguments
ValidInvocation == Preflight(inv).err = "none"

\* the first argument of a valid invocation resolves to a path
Resolves ==
    Truthy(exepath(Preflight(inv).args[1], prefix, targets, files, onpath))

\* the child was spawned and lines 310-323 ended without an exception
Completed ==
    /\ Ended
    /\ proc.spawned
    /\ par.outcome \in {"returned", "SubprocessError: Failed"}

\* C2: whenever the first argument resolves to no path, execute raises the
\* command-not-found SubprocessError, whatever allow_fail, simulate, quiet,
\* stdout and verbose are; no child is spawned and nothing is returned.
C2_NotFoundAlwaysRaised ==
    (Ended /\ ValidInvocation /\ ~Resolves) =>
        /\ par.outcome = "SubprocessError: Command not found"
        /\ ~proc.spawned
        /\ par.ret = <<>>

\* not found, with allow_fail and simulate both set
C2_Witness ==
    /\ Ended
    /\ ValidInvocation
    /\ ~Resolves
    /\ opt.allow_fail /\ opt.simulate /\ opt.quiet /\ opt.stdout /\ opt.verbose = 1
    /\ par.outcome = "SubprocessError: Command not found"

\* C3: once the child has completed, execute raises the execution failure if
\* and only if the exit status is non-zero and allow_fail is false; with
\* allow_fail it returns the child's own exit status, and without allow_fail
\* every return carries status 0.
C3_FailureIffNonZeroAndNotAllowed ==
    /\ Completed =>
          /\ (par.outcome = "SubprocessError: Failed")
                 <=> (proc.code # 0 /\ ~opt.allow_fail)
          /\ par.outcome = "returned" => par.ret[1] = proc.code
    /\ (Ended /\ par.outcome = "returned" /\ ~opt.allow_fail) => par.ret[1] = 0

\* a child that exited with status 1 under allow_fail, and 1 was returned
C3_Witness ==
    /\ Completed
    /\ opt.allow_fail
    /\ proc.code = 1
    /\ par.outcome = "returned"
    /\ par.ret[1] = 1

\* C4 as stated: with simulate, execute never spawns a child and always returns
\* exit status 0, for every invocation with a non-empty argument list.
C4_AsStated ==
    /\ opt.simulate => ~proc.spawned
    /\ (Ended /\ opt.simulate /\ ValidInvocation) =>
          (par.outcome = "returned" /\ par.ret[1] = 0)

\* C4 amended: with simulate, execute never spawns a child, and whenever the
\* argument list is non-empty and its first argument resolves to a path it
\* returns exit status 0, paired with the empty output when stdout is set.
C4_SimulateReturnsZero ==
    /\ opt.simulate => ~proc.spawned
    /\ (Ended /\ opt.simulate /\ ValidInvocation /\ Resolves) =>
          /\ par.outcome = "returned"
          /\ par.ret = IF opt.stdout THEN <<0, <<>>>> ELSE <<0>>

\* a simulated call of a resolved command with stdout set, without allow_fail
C4_Witness ==
    /\ Ended
    /\ opt.simulate /\ opt.stdout /\ ~opt.allow_fail
    /\ ValidInvocation /\ Resolves
    /\ par.ret = <<0, <<>>>>
    /\ par.shown # <<>>

\* C5: on every exit path of execute that spawned a child, raised failures
\* included, the child's stdout and stderr have been read to end-of-file and
\* the child has been waited for before execute returns or raises.
C5_ChildReleasedOnEveryExit ==
    (Ended /\ proc.spawned) =>
        /\ proc.outEOF
        /\ proc.outPipe = <<>>
        /\ proc.errPipe = <<>>
        /\ proc.exited
        /\ proc.reaped

\* C5 on the paths that end in a return or in the failure for a non-zero exit
\* status alone, where it holds
C5_ReleasedWhenCompleted ==
    Completed =>
        /\ proc.outEOF
        /\ proc.outPipe = <<>>
        /\ proc.errPipe = <<>>
        /\ proc.exited
        /\ proc.reaped

\* C6: in every run that spawned a child, the child's stderr is written to the
\* parent's stderr only after end-of-file on the child's stdout and the
\* termination of the child, and all of the child's stderr is written, quiet
\* or not: once neither execute nor the child has a step left, nothing the
\* child wrote to its stderr in the whole of its run is missing.
C6_StderrForwardedInFull ==
    /\ par.errfwd # <<>> => (proc.outEOF /\ proc.exited /\ proc.reaped)
    /\ (proc.spawned /\ ~ENABLED Progress) =>
          par.errfwd = WritesTo(proc.script, "e", 1)

\* C6 in what holds of it: the order on every run, and the whole of the
\* child's stderr on the runs in which lines 310-323 end without an exception
C6_StderrAfterStdoutEOF ==
    /\ par.errfwd # <<>> => (proc.outEOF /\ proc.exited /\ proc.reaped)
    /\ (pc = "done" /\ ~proc.outEOF) => par.errfwd = <<>>
    /\ Completed => par.errfwd = WritesTo(proc.script, "e", 1)

\* C10: a call of execute that has spawned its child and not yet ended can
\* always take a step of its own or of its child: parent and child never block
\* on each other, left to an exception from outside to end the call.
C10_NeverBlocked ==
    (pc \in {"reading", "communicate"}) => ENABLED Progress

\* C10 in its temporal form, for FairSpecExec: every call of execute ends
C10_EventuallyEnds == <>(pc = "done")

====
